---- MODULE Spec2Model ----
(***************************************************************************)
(* Model of src/index.js: the NgxScriptsCli command dispatcher.            *)
(*                                                                         *)
(* One run of the program is: construct the object from the argument list  *)
(* (minimist parses it), then run() takes one branch of its switch and the *)
(* handler it calls runs to its end, to process.exit() or to an uncaught   *)
(* exception.  Everything the program does to the outside (console,        *)
(* filesystem, child processes, process.exit) is appended to `trace` in    *)
(* program order.                                                          *)
(***************************************************************************)
EXTENDS Integers, Sequences, FiniteSets, TLC

VARIABLES
    args,       \* this._args: the raw argument list
    options,    \* this._options: what minimist made of it
    pc,         \* "constructed" | "done" | "exited" | "threw"
    exitCode,   \* the process exit code (0 on a normal return of run())
    trace,      \* the side effects so far, in program order
    env,        \* process.env as _env2json looked it up
    artifacts,  \* the artifact patterns that match a file after packaging
    outDirs,    \* apps[].outDir of .angular-cli.json as _clean read it
    manifest    \* ionic-angular/package.json as _unpinIonicDependencies read it

vars == <<args, options, pc, exitCode, trace, env, artifacts, outDirs, manifest>>

-----------------------------------------------------------------------------
(* Bounds *)

\* longest argument list
MaxArgs == 4

-----------------------------------------------------------------------------
(* Values *)

\* JavaScript's undefined
Undefined == "<undefined>"

\* a string option is truthy unless undefined or empty
Truthy(v) == v # Undefined /\ v # ""

\* Array.prototype.slice(1)
Slice1(s) == IF Len(s) = 0 THEN <<>> ELSE SubSeq(s, 2, Len(s))

Range(s) == {s[i] : i \in DOMAIN s}

\* the sequences over S of length at most n without a repeated element
DistinctSeqs(S, n) ==
    UNION {{s \in [1..k -> S] : \A i, j \in 1..k : s[i] = s[j] => i = j} : k \in 0..n}

-----------------------------------------------------------------------------
(* The constructor: minimist(args, {boolean, string, alias}) *)

BooleanFlags ==
    {"help", "fast", "dev", "device", "emulate", "debug", "release", "yarn", "cordova", "dist"}

StringFlags == {"o", "copy", "env", "path", "e"}

\* the key each flag token sets
FlagKey ==
    [t \in {"--help", "--fast", "--dev", "--device", "--emulate", "--debug", "--release",
            "--yarn", "--cordova", "--dist", "--copy", "--env", "--path", "-o", "-e"} |->
        CASE t = "--help" -> "help"
          [] t = "--fast" -> "fast"
          [] t = "--dev" -> "dev"
          [] t = "--device" -> "device"
          [] t = "--emulate" -> "emulate"
          [] t = "--debug" -> "debug"
          [] t = "--release" -> "release"
          [] t = "--yarn" -> "yarn"
          [] t = "--cordova" -> "cordova"
          [] t = "--dist" -> "dist"
          [] t = "--copy" -> "copy"
          [] t = "--env" -> "env"
          [] t = "--path" -> "path"
          [] t = "-o" -> "o"
          [] t = "-e" -> "e"]

IsFlag(t) == t \in DOMAIN FlagKey

\* /^-/ : the token starts with a dash
StartsWithDash(t) == IsFlag(t) \/ t = "--"

\* the parsed options before any argument is read: booleans default to false,
\* string options are absent
EmptyArgv ==
    [k \in BooleanFlags \cup StringFlags \cup {"_"} |->
        IF k = "_" THEN <<>> ELSE IF k \in BooleanFlags THEN FALSE ELSE Undefined]

\* setArg: the key and its alias (alias: {e: 'env'})
setArg(argv, key, val) ==
    IF key \in {"e", "env"}
        THEN [argv EXCEPT !["e"] = val, !["env"] = val]
        ELSE [argv EXCEPT ![key] = val]

\* position of the first "--", or 0
RECURSIVE IndexOfDashDash(_, _)
IndexOfDashDash(a, i) ==
    IF i > Len(a) THEN 0
    ELSE IF a[i] = "--" THEN i
    ELSE IndexOfDashDash(a, i + 1)

\* minimist's loop over the arguments before "--"
RECURSIVE Scan(_, _, _)
Scan(a, i, argv) ==
    IF i > Len(a) THEN argv
    ELSE IF IsFlag(a[i]) THEN
        LET key == FlagKey[a[i]]
        IN  IF i + 1 <= Len(a) /\ ~StartsWithDash(a[i + 1]) /\ key \notin BooleanFlags
                THEN Scan(a, i + 2, setArg(argv, key, a[i + 1]))
                ELSE Scan(a, i + 1, setArg(argv, key, IF key \in StringFlags THEN "" ELSE TRUE))
    ELSE Scan(a, i + 1, [argv EXCEPT !["_"] = Append(@, a[i])])

\* minimist: everything after the first "--" is positional
minimist(a) ==
    LET cut == IndexOfDashDash(a, 1)
        flagged == IF cut = 0 THEN a ELSE SubSeq(a, 1, cut - 1)
        notFlags == IF cut = 0 THEN <<>> ELSE SubSeq(a, cut + 1, Len(a))
        argv == Scan(flagged, 1, EmptyArgv)
    IN  [argv EXCEPT !["_"] = @ \o notFlags]

\* the argument tokens of the model
Tokens ==
    {"env2json", "cordova", "clean", "unpin-ionic-dependencies", "build", "A",
     "--help", "--fast", "--yarn", "--copy", "--path", "--dist", "--cordova", "-o", "--"}

ArgLists == DistinctSeqs(Tokens, MaxArgs)

-----------------------------------------------------------------------------
(* The running process: its side effects, and how it stopped *)

Ev(op, a, b, r) == [op |-> op, a |-> a, b |-> b, r |-> r]

P0 == [trace |-> <<>>, halted |-> "no", code |-> 0]

Live(p) == p.halted = "no"

Emit(p, e) == [p EXCEPT !.trace = Append(@, e)]

\* an exception nobody catches leaves run()
Throw(p) == [p EXCEPT !.halted = "throw", !.code = 1]

\* _exit(error, code = 1): console.error, then process.exit ends the process
DefaultExitCode == 1

\* an _exit whose process.exit returns to the caller
_exitReturns(p, error) ==
    [p EXCEPT !.trace = @ \o <<Ev("console.error", "", error, ""),
                               Ev("process.exit", "", DefaultExitCode, "")>>]

_exit(p, error) ==
    [trace |-> p.trace \o <<Ev("console.error", "", error, ""),
                            Ev("process.exit", "", DefaultExitCode, "")>>,
     halted |-> "exit",
     code |-> DefaultExitCode]

\* a _help that prints the short text whatever `details` is
_helpShort(p, details) ==
    _exit(Emit(Emit(p, Ev("call", "_help", <<>>, "")),
               Ev("console.log", "", <<"asciiLogo">>, "")),
          <<"help", "Use --help for more info.">>)

\* _help(details)
_help(p, details) ==
    _exit(Emit(Emit(p, Ev("call", "_help", <<>>, "")),
               Ev("console.log", "", <<"asciiLogo">>, "")),
          IF details THEN <<"help", "detailedHelp">>
                     ELSE <<"help", "Use --help for more info.">>)

-----------------------------------------------------------------------------
(* JavaScript objects and JSON: an object is its own members in insertion    *)
(* order, each a <<key, value>> pair                                         *)

Keys(obj) == {obj[i][1] : i \in DOMAIN obj}

HasKey(obj, k) == k \in Keys(obj)

\* obj[k], for a key the object has
Get(obj, k) == obj[CHOOSE i \in DOMAIN obj : obj[i][1] = k][2]

\* obj[k] = v: an existing key keeps its place, a new key is appended
Assign(obj, k, v) ==
    IF HasKey(obj, k)
        THEN [i \in DOMAIN obj |-> IF obj[i][1] = k THEN <<k, v>> ELSE obj[i]]
        ELSE Append(obj, <<k, v>>)

\* a JSON.stringify that writes an undefined value as null
JSONstringifyNull(obj) ==
    [i \in DOMAIN obj |-> IF obj[i][2] = Undefined THEN <<obj[i][1], "null">> ELSE obj[i]]

\* JSON.stringify of an object: its members in order, those whose value is
\* undefined left out
JSONstringify(obj) == SelectSeq(obj, LAMBDA m : m[2] # Undefined)

-----------------------------------------------------------------------------
(* _env2json(vars, outputFile = 'src/environments/.env.json') *)

DefaultOutputFile == "src/environments/.env.json"

\* vars.reduce((env, v) => { env[v] = process.env[v]; return env; }, {})
RECURSIVE EnvReduce(_, _, _)
EnvReduce(names, e, acc) ==
    IF Len(names) = 0 THEN acc
    ELSE EnvReduce(Tail(names), e, Assign(acc, Head(names), e[Head(names)]))

\* fs.writeFileSync(path, data) in a try block whose catch calls _exit
WriteOrExit(p, path, data, ok) ==
    IF ok THEN Emit(p, Ev("writeFileSync", path, data, "ok"))
    ELSE _exit(Emit(p, Ev("writeFileSync", path, data, "fail")),
               <<"Error writing file: ", "err.message">>)

_env2json(p, names, o, e, ok) ==
    LET outputFile == IF o = Undefined THEN DefaultOutputFile ELSE o
        p0 == Emit(p, Ev("call", "_env2json", names, ""))
        p1 == IF Len(names) = 0 THEN _exit(p0, <<"Missing arguments">>) ELSE p0
    IN  IF Live(p1)
            THEN WriteOrExit(p1, outputFile, JSONstringify(EnvReduce(names, e, <<>>)), ok)
            ELSE p1

-----------------------------------------------------------------------------
(* _cordova(options) and _copy(src, dest) *)

AndroidPath(release) ==
    IF release THEN "platforms/android/build/outputs/apk/*-release.apk"
               ELSE "platforms/android/build/outputs/apk/*-debug.apk"

IosPath == "platforms/ios/build/device/*.ipa"

ArtifactPatterns == {AndroidPath(TRUE), AndroidPath(FALSE), IosPath}

\* _copy: the copy command succeeds when the pattern matches a file and fails
\* (execSync throws, _copy returns false) when it matches none
_copy(p, src, dest, art) ==
    Emit(p, Ev("execSync", src, dest, IF src \in art THEN "ok" ELSE "fail"))

\* the value _copy returned: that of the last event
Returned(p) == p.trace[Len(p.trace)].r = "ok"

\* the try block of the copy step
CopyStep(p, opts, art, ensureOk) ==
    IF ~ensureOk
        THEN _exit(Emit(p, Ev("ensureDirSync", opts.copy, <<>>, "fail")),
                   <<"Error during apps copy: ", "err.message">>)
    ELSE
        LET p1 == Emit(p, Ev("ensureDirSync", opts.copy, <<>>, "ok"))
            \* copied = copied || this._copy(androidPath, options.copy)
            p2 == _copy(p1, AndroidPath(opts.release), opts.copy, art)
            copied1 == Returned(p2)
            \* copied = copied || this._copy(ios, options.copy): not called once copied
            p3 == IF copied1 THEN p2 ELSE _copy(p2, IosPath, opts.copy, art)
            copied == copied1 \/ Returned(p3)
        IN  IF copied
                THEN Emit(p3, Ev("console.log", "", <<"Apps copied to ", opts.copy, " folder">>, ""))
                ELSE _exit(p3, <<"Error during apps copy: ", "No app builds found">>)

BuildOptions(opts) ==
    <<"build", "--">>
        \o (IF opts.dev THEN <<"--dev">> ELSE <<>>)
        \o (IF Truthy(opts.env) THEN <<"--env", opts.env>> ELSE <<>>)

CordovaOptions(opts) ==
    Slice1(opts["_"]) \o <<"--no-telemetry">>
        \o (IF opts.device THEN <<"--device">> ELSE <<>>)
        \o (IF opts.emulate THEN <<"--emulate">> ELSE <<>>)
        \o (IF opts.debug THEN <<"--debug">> ELSE <<>>)
        \o (IF opts.release THEN <<"--release">> ELSE <<>>)

\* a build step that does not look at options.fast
BuildStepAlways(p, opts) ==
    Emit(p, Ev("spawnSync", IF opts.yarn THEN "yarn" ELSE "npm run", BuildOptions(opts), ""))

\* the build step: skipped with --fast
BuildStep(p, opts) ==
    IF ~opts.fast
        THEN Emit(p, Ev("spawnSync", IF opts.yarn THEN "yarn" ELSE "npm run", BuildOptions(opts), ""))
        ELSE p

_cordova(p, opts, art, ensureOk) ==
    LET p0 == Emit(p, Ev("call", "_cordova", <<>>, ""))
        p1 == BuildStep(p0, opts)
        p2 == Emit(p1, Ev("spawnSync", "cordova", CordovaOptions(opts), ""))
    IN  IF Len(opts["_"]) > 0 /\ opts["_"][1] = "build" /\ Truthy(opts.copy)
            THEN CopyStep(p2, opts, art, ensureOk)
            ELSE p2

-----------------------------------------------------------------------------
(* _clean(options) and _remove(path) *)

\* how many removals were attempted so far
RECURSIVE CountRemovals(_)
CountRemovals(t) ==
    IF Len(t) = 0 THEN 0
    ELSE CountRemovals(SubSeq(t, 1, Len(t) - 1)) + (IF t[Len(t)].op = "removeSync" THEN 1 ELSE 0)

\* the outcome of the next fs.removeSync: the failAt-th attempt fails (0: none)
RemoveResult(p, failAt) ==
    IF CountRemovals(p.trace) + 1 = failAt THEN "fail" ELSE "ok"

\* _remove(path): fs.removeSync in a try block; logs, or the catch calls _exit
_remove(p, path, failAt) ==
    IF ~Live(p) THEN p
    ELSE IF RemoveResult(p, failAt) = "ok"
        THEN Emit(Emit(p, Ev("removeSync", path, <<>>, "ok")),
                  Ev("console.log", "", <<"Removed ", path>>, ""))
        ELSE _exit(Emit(p, Ev("removeSync", path, <<>>, "fail")),
                   <<"Error while removing ", path, ": ", "err.message">>)

\* angularCliConfig.apps.forEach(app => this._remove(app.outDir))
RECURSIVE RemoveEach(_, _, _)
RemoveEach(p, dirs, failAt) ==
    IF Len(dirs) = 0 THEN p
    ELSE RemoveEach(_remove(p, dirs[1], failAt), Tail(dirs), failAt)

\* defaults that set options.cordova only
CleanDefaultsCordovaOnly(opts) ==
    IF ~opts.cordova /\ ~opts.dist /\ ~Truthy(opts.path)
        THEN [opts EXCEPT !.cordova = TRUE]
        ELSE opts

\* defaults that do not look at options.path
CleanDefaultsIgnoresPath(opts) ==
    IF ~opts.cordova /\ ~opts.dist
        THEN [opts EXCEPT !.cordova = TRUE, !.dist = TRUE]
        ELSE opts

\* with no scope option, options.cordova and options.dist are set
CleanDefaults(opts) ==
    IF ~opts.cordova /\ ~opts.dist /\ ~Truthy(opts.path)
        THEN [opts EXCEPT !.cordova = TRUE, !.dist = TRUE]
        ELSE opts

\* the dist step: the configuration is read in a try block whose catch calls _exit
DistStep(p, cfgOk, dirs, failAt) ==
    IF ~Live(p) THEN p
    ELSE IF cfgOk
        THEN RemoveEach(Emit(p, Ev("require", ".angular-cli.json", <<>>, "ok")), dirs, failAt)
        ELSE _exit(Emit(p, Ev("require", ".angular-cli.json", <<>>, "fail")),
                   <<"Error reading .angular-cli.json: ", "err.message">>)

\* the path step: fs.removeSync(options.path), outside any try block
PathStep(p, path, failAt) ==
    IF ~Live(p) THEN p
    ELSE IF RemoveResult(p, failAt) = "ok"
        THEN Emit(p, Ev("removeSync", path, <<>>, "ok"))
        ELSE Throw(Emit(p, Ev("removeSync", path, <<>>, "fail")))

_clean(p, opts0, cfgOk, dirs, failAt) ==
    LET opts == CleanDefaults(opts0)
        p0 == Emit(p, Ev("call", "_clean", <<>>, ""))
        p1 == IF opts.cordova
                THEN _remove(_remove(p0, "platforms", failAt), "plugins", failAt)
                ELSE p0
        p2 == IF opts.dist THEN DistStep(p1, cfgOk, dirs, failAt) ELSE p1
    IN  IF Truthy(opts.path) THEN PathStep(p2, opts.path, failAt) ELSE p2

-----------------------------------------------------------------------------
(* _unpinIonicDependencies() *)

PkgPath == "node_modules/ionic-angular/package.json"

\* pkg = {peerDependencies: {}}: the other fields are lost
UnpinReplaces(pkg) == <<<<"peerDependencies", "{}">>>>

\* pkg.peerDependencies = {}
Unpin(pkg) == Assign(pkg, "peerDependencies", "{}")

_unpinIonicDependencies(p, m, readOk, writeOk) ==
    LET p0 == Emit(p, Ev("call", "_unpinIonicDependencies", <<>>, ""))
    IN  IF ~readOk
            THEN _exit(Emit(p0, Ev("require", PkgPath, <<>>, "fail")),
                       <<"Error with ionic package: ", "err.message">>)
            ELSE WriteOrExit(Emit(p0, Ev("require", PkgPath, <<>>, "ok")),
                             PkgPath, JSONstringify(Unpin(m)), writeOk)

-----------------------------------------------------------------------------
(* The inputs the handlers read *)

\* what a lookup in process.env gives: a string, or undefined
EnvValues == {Undefined, "v"}

\* the lists of configured output directories
OutDirNames == {"dist", "www"}

OutDirLists == DistinctSeqs(OutDirNames, Cardinality(OutDirNames))

\* the removals one _clean can attempt: platforms, plugins, the output
\* directories, the explicit path
RemovalAttempts == 1..(Cardinality(OutDirNames) + 3)

\* the manifests: top-level fields in file order, each with its JSON value
ManifestValues ==
    [k \in {"name", "peerDependencies"} |->
        IF k = "name" THEN {"\"ionic-angular\""} ELSE {"{}", "{\"rxjs\":\"5.0.1\"}"}]

Manifests ==
    UNION {{m \in [DOMAIN ks -> (DOMAIN ManifestValues) \X (UNION Range(ManifestValues))] :
              \A i \in DOMAIN ks : m[i][1] = ks[i] /\ m[i][2] \in ManifestValues[ks[i]]} :
           ks \in DistinctSeqs(DOMAIN ManifestValues, Cardinality(DOMAIN ManifestValues))}

-----------------------------------------------------------------------------
(* run() *)

Finish(p) ==
    /\ trace' = p.trace
    /\ exitCode' = p.code
    /\ pc' = CASE p.halted = "exit" -> "exited"
               [] p.halted = "throw" -> "threw"
               [] OTHER -> "done"

Command == IF Len(args) = 0 THEN Undefined ELSE args[1]

\* if (this._options.help) return this._help(true)
RunHelp ==
    /\ pc = "constructed"
    /\ options.help
    /\ Finish(_help(P0, TRUE))
    /\ UNCHANGED <<args, options, env, artifacts, outDirs, manifest>>

\* case 'env2json'
RunEnv2json ==
    /\ pc = "constructed"
    /\ ~options.help
    /\ Command = "env2json"
    /\ \E e \in [Range(Slice1(options["_"])) -> EnvValues], ok \in BOOLEAN :
        /\ options.o = "" => ~ok
        /\ env' = e
        /\ Finish(_env2json(P0, Slice1(options["_"]), options.o, e, ok))
    /\ UNCHANGED <<args, options, artifacts, outDirs, manifest>>

\* case 'cordova'
RunCordova ==
    /\ pc = "constructed"
    /\ ~options.help
    /\ Command = "cordova"
    /\ \E art \in SUBSET ArtifactPatterns, ensureOk \in BOOLEAN :
        /\ artifacts' = art
        /\ Finish(_cordova(P0, options, art, ensureOk))
    /\ UNCHANGED <<args, options, env, outDirs, manifest>>

\* case 'clean'
RunClean ==
    /\ pc = "constructed"
    /\ ~options.help
    /\ Command = "clean"
    /\ \E cfgOk \in BOOLEAN, dirs \in OutDirLists, failAt \in {0} \cup RemovalAttempts :
        /\ outDirs' = IF CleanDefaults(options).dist /\ cfgOk THEN dirs ELSE <<>>
        /\ options' = CleanDefaults(options)
        /\ Finish(_clean(P0, options, cfgOk, dirs, failAt))
    /\ UNCHANGED <<args, env, artifacts, manifest>>

\* case 'unpin-ionic-dependencies'
RunUnpin ==
    /\ pc = "constructed"
    /\ ~options.help
    /\ Command = "unpin-ionic-dependencies"
    /\ \E m \in Manifests, readOk, writeOk \in BOOLEAN :
        /\ manifest' = IF readOk THEN m ELSE <<>>
        /\ Finish(_unpinIonicDependencies(P0, m, readOk, writeOk))
    /\ UNCHANGED <<args, options, env, artifacts, outDirs>>

\* default: this._help()
RunDefault ==
    /\ pc = "constructed"
    /\ ~options.help
    /\ Command \notin {"env2json", "cordova", "clean", "unpin-ionic-dependencies"}
    /\ Finish(_help(P0, FALSE))
    /\ UNCHANGED <<args, options, env, artifacts, outDirs, manifest>>

Init ==
    /\ args \in ArgLists
    /\ options = minimist(args)
    /\ pc = "constructed"
    /\ exitCode = 0
    /\ trace = <<>>
    /\ env = <<>>
    /\ artifacts = {}
    /\ outDirs = <<>>
    /\ manifest = <<>>

Next == RunHelp \/ RunEnv2json \/ RunCordova \/ RunClean \/ RunUnpin \/ RunDefault

Spec == Init /\ [][Next]_vars

\* _cordova(this._options) called on the constructed object itself, not
\* through run()
CallCordova ==
    /\ pc = "constructed"
    /\ \E art \in SUBSET ArtifactPatterns, ensureOk \in BOOLEAN :
        /\ artifacts' = art
        /\ Finish(_cordova(P0, options, art, ensureOk))
    /\ UNCHANGED <<args, options, env, outDirs, manifest>>

SpecCordova == Init /\ [][CallCordova]_vars

-----------------------------------------------------------------------------
(* What the claims speak of *)

Finished == pc # "constructed"

Called(h) == \E i \in DOMAIN trace : trace[i].op = "call" /\ trace[i].a = h

\* the positions of the events of one kind
At(op) == {i \in DOMAIN trace : trace[i].op = op}

\* the token t stands in the argument list as an option: before any "--"
FlagGiven(t) ==
    \E i \in DOMAIN args : args[i] = t /\ \A j \in 1..i : args[j] # "--"

\* the token t stands anywhere in the argument list
TokenPresent(t) == \E i \in DOMAIN args : args[i] = t

\* the value given to a string option: the token after it, if that is a value
ValueGiven(t, x) ==
    \E i \in DOMAIN args :
        /\ args[i] = t
        /\ \A j \in 1..(i + 1) : j \in DOMAIN args /\ args[j] # "--"
        /\ ~StartsWithDash(args[i + 1])
        /\ x = args[i + 1]

IsPrefix(s, t) == Len(s) <= Len(t) /\ SubSeq(t, 1, Len(s)) = s

\* the paths fs.removeSync was called on, in order
RECURSIVE RemovalPaths(_)
RemovalPaths(t) ==
    IF Len(t) = 0 THEN <<>>
    ELSE IF Head(t).op = "removeSync" THEN <<Head(t).a>> \o RemovalPaths(Tail(t))
    ELSE RemovalPaths(Tail(t))

\* the process ended through _exit with a non-zero code
ExitedNonZero ==
    /\ pc = "exited"
    /\ exitCode # 0
    /\ Len(trace) > 0
    /\ trace[Len(trace)].op = "process.exit"
    /\ trace[Len(trace)].b # 0

\* some message on the error stream holds the text
ErrorSays(text) == \E i \in At("console.error") : text \in Range(trace[i].b)

\* nothing was done to the filesystem and no process was spawned
NoSideEffect ==
    \A i \in DOMAIN trace : trace[i].op \in {"call", "console.log", "console.error", "process.exit"}

\* the handlers entered, in order
RECURSIVE Calls(_)
Calls(t) ==
    IF Len(t) = 0 THEN <<>>
    ELSE IF Head(t).op = "call" THEN <<Head(t).a>> \o Calls(Tail(t))
    ELSE Calls(Tail(t))

-----------------------------------------------------------------------------
(* env2json *)

\* the names _env2json was given: the positional arguments after the command
Requested == Slice1(options["_"])

\* the JSON objects written to a file
Written == {trace[i].b : i \in {j \in At("writeFileSync") : trace[j].r = "ok"}}

\* C1 as stated: the object env2json writes has exactly the requested names as
\* its keys, each with the value the environment lookup of the name gave.
C1_KeysAreRequestedNames ==
    (Called("_env2json") /\ Len(Requested) > 0) =>
        \A w \in Written :
            /\ Keys(w) = Range(Requested)
            /\ \A k \in Keys(w) : Get(w, k) = env[k]

\* C1 amended: the keys of the object env2json writes are exactly the requested
\* names the environment sets (a name whose lookup is undefined gets no key),
\* each with the value the environment lookup of the name gave.
C1_KeysAreSetNames ==
    (Called("_env2json") /\ Len(Requested) > 0) =>
        \A w \in Written :
            /\ Keys(w) = {v \in Range(Requested) : env[v] # Undefined}
            /\ \A k \in Keys(w) : Get(w, k) = env[k]

\* env2json wrote an object for two names, one set and one unset
C1_Witness ==
    /\ pc = "done"
    /\ Called("_env2json")
    /\ Written # {}
    /\ \E a, b \in Range(Requested) : env[a] # Undefined /\ env[b] = Undefined

\* C2: env2json given no variable name ends the process through _exit with a
\* non-zero code after reporting 'Missing arguments', and no file write is
\* attempted at any point of the run.
C2_NoNamesNoWrite ==
    (Called("_env2json") /\ Len(Requested) = 0) =>
        /\ ExitedNonZero
        /\ ErrorSays("Missing arguments")
        /\ At("writeFileSync") = {}

\* env2json was run with -o and no variable name, and the process has ended
C2_Witness ==
    /\ Finished
    /\ Called("_env2json")
    /\ Len(Requested) = 0
    /\ Truthy(options.o)

-----------------------------------------------------------------------------
(* cordova *)

\* the Cordova command: the first positional argument after `cordova`
CordovaCommand == IF Len(options["_"]) >= 2 THEN options["_"][2] ELSE Undefined

\* the two patterns the copy step looks for
WantedPatterns == {AndroidPath(options.release), IosPath}

\* C3: `cordova build --copy DEST` run through run(), when no file matches
\* either artifact pattern, creates DEST and then ends the process with a
\* non-zero code after an error message holding 'No app builds found'.
C3_NoBuildsFoundIsReported ==
    (/\ Finished
     /\ Called("_cordova")
     /\ CordovaCommand = "build"
     /\ \E dest \in Tokens : ValueGiven("--copy", dest)
     /\ artifacts \cap WantedPatterns = {}
     /\ \A i \in At("ensureDirSync") : trace[i].r = "ok") =>
        /\ \E i \in At("ensureDirSync") : ValueGiven("--copy", trace[i].a)
        /\ ExitedNonZero
        /\ ErrorSays("No app builds found")

\* the external build command, and the packaging tool
BuildSpawns == {i \in At("spawnSync") : trace[i].a \in {"npm run", "yarn"} /\ trace[i].b[1] = "build"}

CordovaSpawns == {i \in At("spawnSync") : trace[i].a = "cordova"}

C10_EveryPatternIsCopied ==
    (Finished /\ Called("_cordova") /\ \E i \in At("ensureDirSync") : trace[i].r = "ok") =>
        \A pat \in WantedPatterns :
            /\ \E i \in At("execSync") : trace[i].a = pat
            /\ pat \in artifacts => \E i \in At("execSync") : trace[i].a = pat /\ trace[i].r = "ok"

-----------------------------------------------------------------------------
(* clean *)

NoScopeFlag == ~FlagGiven("--cordova") /\ ~FlagGiven("--dist") /\ ~FlagGiven("--path")

\* C4: clean with none of --cordova, --dist, --path calls fs.removeSync on
\* 'platforms', 'plugins' and the configured output directories, in that order
\* and on nothing else; a run that returns normally has removed them all; the
\* explicit-path removal is never executed (no removal is left unguarded).
C4_DefaultScope ==
    (Finished /\ Called("_clean") /\ NoScopeFlag) =>
        /\ IsPrefix(RemovalPaths(trace), <<"platforms", "plugins">> \o outDirs)
        /\ pc # "threw"
        /\ pc = "done" =>
            /\ RemovalPaths(trace) = <<"platforms", "plugins">> \o outDirs
            /\ \A i \in At("removeSync") : trace[i].r = "ok"
            /\ \E i \in At("require") : trace[i].r = "ok"

\* clean without a scope flag has removed the Cordova folders and two
\* configured output directories
C4_Witness ==
    /\ pc = "done"
    /\ Called("_clean")
    /\ NoScopeFlag
    /\ Len(outDirs) = 2

\* C5: clean with --path X and neither --cordova nor --dist calls
\* fs.removeSync on X and on nothing else, and does not read the build
\* configuration; a run that returns normally has removed X.
C5_OnlyPath ==
    \A x \in Tokens :
        (/\ Finished
         /\ Called("_clean")
         /\ ValueGiven("--path", x)
         /\ ~FlagGiven("--cordova")
         /\ ~FlagGiven("--dist")) =>
            /\ RemovalPaths(trace) = <<x>>
            /\ At("require") = {}
            /\ pc = "done" => \A i \in At("removeSync") : trace[i].r = "ok"

\* clean --path X has removed X
C5_Witness ==
    /\ pc = "done"
    /\ Called("_clean")
    /\ \E x \in Tokens : ValueGiven("--path", x)
    /\ ~FlagGiven("--cordova")
    /\ ~FlagGiven("--dist")
    /\ At("removeSync") # {}

\* C9: in clean, every removal that fails is followed by a message on the
\* error stream and process.exit with a non-zero code, and by no further
\* removal.
C9_FailedRemovalExits ==
    (Finished /\ Called("_clean")) =>
        \A i \in At("removeSync") :
            trace[i].r = "fail" =>
                /\ Len(trace) = i + 2
                /\ trace[i + 1].op = "console.error"
                /\ ExitedNonZero

-----------------------------------------------------------------------------
(* unpin-ionic-dependencies *)

\* C7 as stated: after a successful unpin the manifest written has an empty
\* peerDependencies, every other field as read, and no field added or dropped.
C7_NoFieldAddedOrDropped ==
    (pc = "done" /\ Called("_unpinIonicDependencies")) =>
        \A w \in Written :
            /\ HasKey(w, "peerDependencies") /\ Get(w, "peerDependencies") = "{}"
            /\ Keys(w) = Keys(manifest)
            /\ \A k \in Keys(manifest) \ {"peerDependencies"} : Get(w, k) = Get(manifest, k)

\* C7 amended: after a successful unpin the manifest written has an empty
\* peerDependencies, every other field as read, and no other field added or
\* dropped: peerDependencies itself is added when the manifest read had none.
C7_OtherFieldsKept ==
    (pc = "done" /\ Called("_unpinIonicDependencies")) =>
        /\ Written # {}
        /\ \A w \in Written :
            /\ HasKey(w, "peerDependencies") /\ Get(w, "peerDependencies") = "{}"
            /\ Keys(w) = Keys(manifest) \cup {"peerDependencies"}
            /\ \A k \in Keys(manifest) \ {"peerDependencies"} : Get(w, k) = Get(manifest, k)

\* a manifest with a name and pinned peer dependencies was rewritten
C7_Witness ==
    /\ pc = "done"
    /\ Called("_unpinIonicDependencies")
    /\ HasKey(manifest, "name")
    /\ HasKey(manifest, "peerDependencies")
    /\ Get(manifest, "peerDependencies") # "{}"

-----------------------------------------------------------------------------
(* run() *)

Handler ==
    [c \in {"env2json", "cordova", "clean", "unpin-ionic-dependencies"} |->
        CASE c = "env2json" -> "_env2json"
          [] c = "cordova" -> "_cordova"
          [] c = "clean" -> "_clean"
          [] c = "unpin-ionic-dependencies" -> "_unpinIonicDependencies"]

\* the run printed the help text and ended non-zero, and did nothing else
HelpOnly(text) ==
    /\ Calls(trace) = <<"_help">>
    /\ ErrorSays(text)
    /\ ExitedNonZero
    /\ NoSideEffect

\* what C8 says of a run, `help` telling whether --help counts as given
DispatchRule(help) ==
    Finished =>
        /\ help => HelpOnly("detailedHelp")
        /\ (~help /\ Command \notin DOMAIN Handler) => HelpOnly("Use --help for more info.")
        /\ (~help /\ Command \in DOMAIN Handler) => Calls(trace) = <<Handler[Command]>>

\* C8 as stated: with --help anywhere in the argument list the run prints the
\* detailed help and ends non-zero without entering a command handler; without
\* it an unrecognized or missing command prints the short help and ends
\* non-zero without side effects, and a recognized command enters exactly its
\* handler, once.
C8_HelpAnywhere == DispatchRule(TokenPresent("--help"))

\* C8 amended: the same, for a --help that stands before any `--` separator;
\* a --help after `--` is a positional argument and the command is run.
C8_HelpBeforeSeparator == DispatchRule(FlagGiven("--help"))

\* clean --help has printed the detailed help
C8_Witness ==
    /\ pc = "exited"
    /\ Command = "clean"
    /\ FlagGiven("--help")
    /\ ErrorSays("detailedHelp")

====
